---- MODULE Spec2Model ----
(***************************************************************************)
(* Shared mutable state (ArcData / ArcDestruct), the unwrap rendezvous and *)
(* the Exclusive (LittleLock + poison flag) of libcore/private.rs, as a    *)
(* state machine of tasks that clone, drop, unwrap and access one cell.    *)
(***************************************************************************)
EXTENDS Integers, FiniteSets, Sequences

(* ------------------------------- bounds -------------------------------- *)
NumTasks == 3
MaxClones == 2
MaxCalls == 2

Tasks == 1..NumTasks

VARIABLES
    pc,         \* position of every task in the operation it is executing
    handles,    \* number of non-null ArcDestruct handles every task owns
    count,      \* ArcData.count
    unwrapper,  \* ArcData.unwrapper: 0, or the server of the task that won
    data,       \* ArcData.data: "Some", or "None" once it was moved out
    dropped,    \* number of times the payload's destructor ran
    val,        \* ExData.data, the integer payload
    failed,     \* ExData.failed
    lock,       \* ExData.lock: 0, or the task that holds the little lock
    tmp,        \* the closure's local copy of the payload (**count += 1)
    message,    \* the oneshot () pipe of the installed server
    response,   \* the oneshot bool pipe of the installed server
    killed,     \* tasks that have been asked to die
    err,        \* the failure every task ended with
    result,     \* what unwrap returned to every task (NoResult before)
    freed,      \* who freed the ~ArcData box, in order of the frees
    clones,     \* number of clone_shared_mutable_state calls so far
    drops,      \* number of handle destructions so far
    calls       \* number of Exclusive::with calls so far

vars == <<pc, handles, count, unwrapper, data, dropped, val, failed, lock, tmp, message,
          response, killed, err, result, freed, clones, drops, calls>>

cellVars == <<count, unwrapper, data, dropped, freed>>
exVars == <<val, failed, lock, tmp, calls>>
pipeVars == <<message, response>>

NoResult == -1

(* Where a task goes when an operation ends: a failed task keeps unwinding. *)
Home(t) == IF err[t] = "none" THEN "idle" ELSE "failed"

(* ------------------------------ atomics -------------------------------- *)
compare_and_swap_blind(cur, oldval) == TRUE
compare_and_swap(cur, oldval) == cur = oldval

atomic_xadd_lost(c) == c
atomic_xadd(c) == c + 1
atomic_xsub_lost(c) == c
atomic_xsub(c) == c - 1

(* ---------------------------- construction ----------------------------- *)
(* exclusive(0) called by task 1: shared_mutable_state and ExData.         *)
Init ==
    /\ pc = [t \in Tasks |-> "idle"]
    /\ handles = [t \in Tasks |-> IF t = 1 THEN 1 ELSE 0]
    /\ count = 1
    /\ unwrapper = 0
    /\ data = "Some"
    /\ dropped = 0
    /\ val = 0
    /\ failed = FALSE
    /\ lock = 0
    /\ tmp = [t \in Tasks |-> 0]
    /\ message = "none"
    /\ response = "none"
    /\ killed = [t \in Tasks |-> FALSE]
    /\ err = [t \in Tasks |-> "none"]
    /\ result = [t \in Tasks |-> NoResult]
    /\ freed = <<>>
    /\ clones = 0
    /\ drops = 0
    /\ calls = 0

(* -------------------------------- clone -------------------------------- *)
(* Task t clones a handle it owns; the new handle is moved to task u       *)
(* (u = t, or a task that is between operations).                          *)
clone_shared_mutable_state(t, u) ==
    /\ pc[t] = "idle"
    /\ handles[t] >= 1
    /\ pc[u] = "idle"
    /\ clones < MaxClones
    /\ count' = atomic_xadd(count)
    /\ clones' = clones + 1
    /\ IF count' >= 2
       THEN /\ handles' = [handles EXCEPT ![u] = @ + 1]
            /\ UNCHANGED <<pc, err>>
       ELSE /\ err' = [err EXCEPT ![t] = "AssertFailed"]
            /\ pc' = [pc EXCEPT ![t] = "failed"]
            /\ UNCHANGED handles
    /\ UNCHANGED <<unwrapper, data, dropped, freed, exVars, pipeVars, killed, result, drops>>

(* -------------------------------- drop --------------------------------- *)
(* "drop glue takes over": the ~ArcData box is destroyed by `who`, and the *)
(* payload's destructor runs if the payload is still in the box.           *)
DropGlue(who, d) ==
    /\ dropped' = IF d = "Some" THEN dropped + 1 ELSE dropped
    /\ freed' = Append(freed, who)

(* if new_count == 0: this decrement was the last owner's.                 *)
last_owner_off_by_one(new_count) == new_count <= 1
last_owner(new_count) == new_count = 0

(* ArcDestruct::drop, the decrement: a handle with a non-null pointer is   *)
(* destructed (a scope ends, or a failed task unwinds).                    *)
ArcDestruct_drop(t) ==
    /\ pc[t] \in {"idle", "failed"}
    /\ handles[t] >= 1
    /\ handles' = [handles EXCEPT ![t] = @ - 1]
    /\ drops' = drops + 1
    /\ count' = atomic_xsub(count)
    /\ IF count' < 0
       THEN /\ err' = [err EXCEPT ![t] = "AssertFailed"]
            /\ pc' = [pc EXCEPT ![t] = "failed"]
       ELSE /\ pc' = [pc EXCEPT ![t] = IF last_owner(count') THEN "drop_check"
                                         ELSE Home(t)]
            /\ UNCHANGED err
    /\ UNCHANGED <<unwrapper, data, dropped, freed, exVars, pipeVars, killed,
                   result, clones>>

(* new_count == 0: was an unwrapper installed?                             *)
drop_check_blind(t) ==
    /\ pc[t] = "drop_check"
    /\ DropGlue("dropper", data)
    /\ pc' = [pc EXCEPT ![t] = Home(t)]
    /\ UNCHANGED <<handles, count, unwrapper, data, exVars, pipeVars, killed,
                   err, result, clones, drops>>

drop_check(t) ==
    /\ pc[t] = "drop_check"
    /\ IF unwrapper # 0
       THEN /\ pc' = [pc EXCEPT ![t] = "drop_send"]
            /\ UNCHANGED <<dropped, freed>>
       ELSE /\ DropGlue("dropper", data)
            /\ pc' = [pc EXCEPT ![t] = Home(t)]
    /\ UNCHANGED <<handles, count, unwrapper, data, exVars, pipeVars, killed,
                   err, result, clones, drops>>

(* pipes::send_one(message, ()): nothing is delivered when the receiving   *)
(* end is gone.                                                            *)
send_one(m) == IF m = "open" THEN "sent" ELSE m

drop_send_sync(t) ==
    /\ pc[t] = "drop_send"
    /\ unwrapper \in Tasks
    /\ pc[unwrapper] = "unwrap_wait"
    /\ message' = send_one(message)
    /\ pc' = [pc EXCEPT ![t] = "drop_recv"]
    /\ UNCHANGED <<handles, cellVars, exVars, response, killed, err, result,
                   clones, drops>>

drop_send_nowait(t) ==
    /\ pc[t] = "drop_send"
    /\ message' = send_one(message)
    /\ pc' = [pc EXCEPT ![t] = Home(t)]
    /\ UNCHANGED <<handles, cellVars, exVars, response, killed, err, result,
                   clones, drops>>

drop_send_skip(t) ==
    /\ pc[t] = "drop_send"
    /\ pc' = [pc EXCEPT ![t] = "drop_recv"]
    /\ UNCHANGED <<handles, cellVars, exVars, pipeVars, killed, err, result,
                   clones, drops>>

drop_send(t) ==
    /\ pc[t] = "drop_send"
    /\ message' = send_one(message)
    /\ pc' = [pc EXCEPT ![t] = "drop_recv"]
    /\ UNCHANGED <<handles, cellVars, exVars, response, killed, err, result,
                   clones, drops>>

(* The unkillable pipes::recv_one(response) and what follows it.           *)
drop_recv_ignore(t) ==
    /\ pc[t] = "drop_recv"
    /\ response \in {"true", "false"}
    /\ response' = IF response = "true" THEN "got_true" ELSE "got_false"
    /\ DropGlue("dropper", data)
    /\ pc' = [pc EXCEPT ![t] = Home(t)]
    /\ UNCHANGED <<handles, count, unwrapper, data, exVars, message, killed,
                   err, result, clones, drops>>

drop_recv(t) ==
    /\ pc[t] = "drop_recv"
    /\ response \in {"true", "false"}
    /\ response' = IF response = "true" THEN "got_true" ELSE "got_false"
    /\ IF response = "true"
       THEN UNCHANGED <<dropped, freed>>
       ELSE DropGlue("dropper", data)
    /\ pc' = [pc EXCEPT ![t] = Home(t)]
    /\ UNCHANGED <<handles, count, unwrapper, data, exVars, message, killed,
                   err, result, clones, drops>>

(* ------------------------------- unwrap -------------------------------- *)
(* DeathThroes::drop: what is sent on response.                            *)
DeathThroes_true(failing) == "true"
DeathThroes_false(failing) == "false"
DeathThroes(failing) == IF failing THEN "false" ELSE "true"

(* What the poison check of Exclusive::with reads.                         *)
rec_failed_ignored(f) == FALSE
rec_failed(f) == f

(* unwrap_shared_mutable_state, up to the compare_and_swap. On success the *)
(* server (c1, p2) is in the slot and rc.data is nulled; on failure the    *)
(* task dies with its handle untouched.                                    *)
unwrap_cas_neutralise_early(t) ==
    /\ pc[t] = "idle"
    /\ handles[t] >= 1
    /\ handles' = [handles EXCEPT ![t] = @ - 1]
    /\ IF compare_and_swap(unwrapper, 0)
       THEN /\ unwrapper' = t
            /\ message' = "open"
            /\ response' = "open"
            /\ pc' = [pc EXCEPT ![t] = "unwrap_dec"]
            /\ UNCHANGED err
       ELSE /\ err' = [err EXCEPT ![t] = "UnwrapContended"]
            /\ pc' = [pc EXCEPT ![t] = "failed"]
            /\ UNCHANGED <<unwrapper, message, response>>
    /\ UNCHANGED <<count, data, dropped, freed, exVars, killed, result, clones,
                   drops>>

unwrap_cas(t) ==
    /\ pc[t] = "idle"
    /\ handles[t] >= 1
    /\ IF compare_and_swap(unwrapper, 0)
       THEN /\ unwrapper' = t
            /\ message' = "open"
            /\ response' = "open"
            /\ handles' = [handles EXCEPT ![t] = @ - 1]
            /\ pc' = [pc EXCEPT ![t] = "unwrap_dec"]
            /\ UNCHANGED err
       ELSE /\ err' = [err EXCEPT ![t] = "UnwrapContended"]
            /\ pc' = [pc EXCEPT ![t] = "failed"]
            /\ UNCHANGED <<unwrapper, message, response, handles>>
    /\ UNCHANGED <<count, data, dropped, freed, exVars, killed, result, clones,
                   drops>>

(* Step 1, "drop our own reference", and the new_count == 0 branch.        *)
unwrap_dec(t) ==
    /\ pc[t] = "unwrap_dec"
    /\ count' = atomic_xsub(count)
    /\ IF last_owner(count')
       THEN /\ message' = "closed"
            /\ response' = "closed"
            /\ IF data = "Some"
               THEN /\ data' = "None"
                    /\ result' = [result EXCEPT ![t] = val]
                    /\ pc' = [pc EXCEPT ![t] = "idle"]
                    /\ UNCHANGED err
               ELSE /\ err' = [err EXCEPT ![t] = "AssertFailed"]
                    /\ pc' = [pc EXCEPT ![t] = "failed"]
                    /\ UNCHANGED <<data, result>>
            /\ DropGlue("unwrapper", "None")
       ELSE /\ pc' = [pc EXCEPT ![t] = "unwrap_wait"]
            /\ UNCHANGED <<message, response, data, result, err, dropped, freed>>
    /\ UNCHANGED <<handles, unwrapper, exVars, killed, clones, drops>>

(* The rekillable pipes::recv_one(p1) completes.                           *)
recv_one_ready(m) == m = "sent"

unwrap_recv_nowait(t) ==
    /\ pc[t] = "unwrap_wait"
    /\ message' = "received"
    /\ pc' = [pc EXCEPT ![t] = "unwrap_take"]
    /\ UNCHANGED <<handles, cellVars, exVars, response, killed, err, result,
                   clones, drops>>

unwrap_recv(t) ==
    /\ pc[t] = "unwrap_wait"
    /\ recv_one_ready(message)
    /\ message' = "received"
    /\ pc' = [pc EXCEPT ![t] = "unwrap_take"]
    /\ UNCHANGED <<handles, cellVars, exVars, response, killed, err, result,
                   clones, drops>>

(* The task is killed in the rekillable wait: DeathThroes::drop runs with  *)
(* task::failing(), p1 is dropped and ptr is forgotten.                    *)
unwrap_killed_clears(t) ==
    /\ pc[t] = "unwrap_wait"
    /\ killed[t]
    /\ unwrapper' = 0
    /\ response' = DeathThroes(TRUE)
    /\ message' = IF message = "open" THEN "closed" ELSE message
    /\ err' = [err EXCEPT ![t] = "Killed"]
    /\ pc' = [pc EXCEPT ![t] = "failed"]
    /\ UNCHANGED <<handles, count, data, dropped, freed, exVars, killed, result,
                   clones, drops>>

unwrap_killed_silent(t) ==
    /\ pc[t] = "unwrap_wait"
    /\ killed[t]
    /\ message' = IF message = "open" THEN "closed" ELSE message
    /\ err' = [err EXCEPT ![t] = "Killed"]
    /\ pc' = [pc EXCEPT ![t] = "failed"]
    /\ UNCHANGED <<handles, cellVars, exVars, response, killed, result, clones,
                   drops>>

unwrap_killed(t) ==
    /\ pc[t] = "unwrap_wait"
    /\ killed[t]
    /\ response' = DeathThroes(TRUE)
    /\ message' = IF message = "open" THEN "closed" ELSE message
    /\ err' = [err EXCEPT ![t] = "Killed"]
    /\ pc' = [pc EXCEPT ![t] = "failed"]
    /\ UNCHANGED <<handles, cellVars, exVars, killed, result, clones, drops>>

(* "Got here": recover ptr and take the data out.                          *)
unwrap_take_poisoned(t) ==
    /\ pc[t] = "unwrap_take"
    /\ IF data = "Some" /\ ~rec_failed(failed)
       THEN /\ data' = "None"
            /\ result' = [result EXCEPT ![t] = val]
            /\ UNCHANGED err
       ELSE /\ err' = [err EXCEPT ![t] =
                         IF data = "Some" THEN "Poisoned" ELSE "AssertFailed"]
            /\ UNCHANGED <<data, result>>
    /\ pc' = [pc EXCEPT ![t] = "unwrap_resp"]
    /\ UNCHANGED <<handles, count, unwrapper, dropped, freed, exVars, pipeVars,
                   killed, clones, drops>>

unwrap_take(t) ==
    /\ pc[t] = "unwrap_take"
    /\ IF data = "Some"
       THEN /\ data' = "None"
            /\ result' = [result EXCEPT ![t] = val]
            /\ UNCHANGED err
       ELSE /\ err' = [err EXCEPT ![t] = "AssertFailed"]
            /\ UNCHANGED <<data, result>>
    /\ pc' = [pc EXCEPT ![t] = "unwrap_resp"]
    /\ UNCHANGED <<handles, count, unwrapper, dropped, freed, exVars, pipeVars,
                   killed, clones, drops>>

(* Drop glue at the end of unwrap: the box is freed and DeathThroes::drop  *)
(* answers the dropper.                                                    *)
unwrap_resp(t) ==
    /\ pc[t] = "unwrap_resp"
    /\ response' = DeathThroes(err[t] # "none")
    /\ DropGlue("unwrapper", data)
    /\ pc' = [pc EXCEPT ![t] = Home(t)]
    /\ UNCHANGED <<handles, count, unwrapper, data, exVars, message, killed,
                   err, result, clones, drops>>

(* Another task asks the unwrapping task to die; it takes effect at the    *)
(* rekillable wait only.                                                   *)
Kill(t) ==
    /\ pc[t] \in {"unwrap_dec", "unwrap_wait"}
    /\ ~killed[t]
    /\ killed' = [killed EXCEPT ![t] = TRUE]
    /\ UNCHANGED <<pc, handles, cellVars, exVars, pipeVars, err, result, clones,
                   drops>>

(* ------------------------------ Exclusive ------------------------------ *)
(* rust_lock_little_lock returns once nobody holds the lock.               *)
rust_lock_little_lock(l) == l = 0

(* Exclusive::with, the call: get_shared_mutable_state on a handle the     *)
(* task owns (assert ptr.count > 0, option::get_ref(&ptr.data)).           *)
get_shared_mutable_state(t) ==
    /\ pc[t] = "idle"
    /\ handles[t] >= 1
    /\ calls < MaxCalls
    /\ calls' = calls + 1
    /\ IF count > 0 /\ data = "Some"
       THEN /\ pc' = [pc EXCEPT ![t] = "with_lock"]
            /\ UNCHANGED err
       ELSE /\ err' = [err EXCEPT ![t] = "AssertFailed"]
            /\ pc' = [pc EXCEPT ![t] = "failed"]
    /\ UNCHANGED <<handles, cellVars, val, failed, lock, tmp, pipeVars, killed,
                   result, clones, drops>>

(* LittleLock::lock: rust_lock_little_lock(self.l) inside `atomically`.    *)
LittleLock_lock_nolock(t) ==
    /\ pc[t] = "with_lock"
    /\ lock' = t
    /\ pc' = [pc EXCEPT ![t] = "with_check"]
    /\ UNCHANGED <<handles, cellVars, val, failed, tmp, calls, pipeVars, killed,
                   err, result, clones, drops>>

LittleLock_lock(t) ==
    /\ pc[t] = "with_lock"
    /\ rust_lock_little_lock(lock)
    /\ lock' = t
    /\ pc' = [pc EXCEPT ![t] = "with_check"]
    /\ UNCHANGED <<handles, cellVars, val, failed, tmp, calls, pipeVars, killed,
                   err, result, clones, drops>>

(* if rec.failed { die!("Poisoned exclusive") }; rec.failed = true         *)
with_check(t) ==
    /\ pc[t] = "with_check"
    /\ IF rec_failed(failed)
       THEN /\ err' = [err EXCEPT ![t] = "Poisoned"]
            /\ pc' = [pc EXCEPT ![t] = "with_unlock"]
            /\ UNCHANGED failed
       ELSE /\ failed' = TRUE
            /\ pc' = [pc EXCEPT ![t] = "with_body"]
            /\ UNCHANGED err
    /\ UNCHANGED <<handles, cellVars, val, lock, tmp, calls, pipeVars, killed,
                   result, clones, drops>>

(* f(&mut rec.data) starts: the closure reads the payload.                 *)
with_body(t) ==
    /\ pc[t] = "with_body"
    /\ tmp' = [tmp EXCEPT ![t] = val]
    /\ pc' = [pc EXCEPT ![t] = "with_ret"]
    /\ UNCHANGED <<handles, cellVars, val, failed, lock, calls, pipeVars, killed,
                   err, result, clones, drops>>

(* The closure stores payload + 1 and returns: rec.failed = false.         *)
failed_after_return_kept(f) == f
failed_after_return(f) == FALSE

with_return(t) ==
    /\ pc[t] = "with_ret"
    /\ val' = tmp[t] + 1
    /\ failed' = failed_after_return(failed)
    /\ tmp' = [tmp EXCEPT ![t] = 0]
    /\ pc' = [pc EXCEPT ![t] = "with_unlock"]
    /\ UNCHANGED <<handles, cellVars, lock, calls, pipeVars, killed, err, result,
                   clones, drops>>

(* The closure fails, before or after it stored payload + 1; rec.failed    *)
(* stays true.                                                             *)
with_fail_nounlock(t, stored) ==
    /\ pc[t] = "with_ret"
    /\ val' = IF stored THEN tmp[t] + 1 ELSE val
    /\ tmp' = [tmp EXCEPT ![t] = 0]
    /\ err' = [err EXCEPT ![t] = "ClosureFailed"]
    /\ pc' = [pc EXCEPT ![t] = "failed"]
    /\ UNCHANGED <<handles, cellVars, failed, lock, calls, pipeVars, killed,
                   result, clones, drops>>

with_fail(t, stored) ==
    /\ pc[t] = "with_ret"
    /\ val' = IF stored THEN tmp[t] + 1 ELSE val
    /\ tmp' = [tmp EXCEPT ![t] = 0]
    /\ err' = [err EXCEPT ![t] = "ClosureFailed"]
    /\ pc' = [pc EXCEPT ![t] = "with_unlock"]
    /\ UNCHANGED <<handles, cellVars, failed, lock, calls, pipeVars, killed,
                   result, clones, drops>>

(* Unlock::drop: rust_unlock_little_lock on every way out of the scope.    *)
rust_unlock_little_lock(l) == 0

Unlock_drop_leak(t) ==
    /\ pc[t] = "with_unlock"
    /\ pc' = [pc EXCEPT ![t] = Home(t)]
    /\ UNCHANGED <<handles, cellVars, exVars, pipeVars, killed, err, result,
                   clones, drops>>

Unlock_drop(t) ==
    /\ pc[t] = "with_unlock"
    /\ lock' = rust_unlock_little_lock(lock)
    /\ pc' = [pc EXCEPT ![t] = Home(t)]
    /\ UNCHANGED <<handles, cellVars, val, failed, tmp, calls, pipeVars, killed,
                   err, result, clones, drops>>

(* ---------------------------- specification ---------------------------- *)
Next ==
    \/ \E t \in Tasks, u \in Tasks : clone_shared_mutable_state(t, u)
    \/ \E t \in Tasks : ArcDestruct_drop(t)
    \/ \E t \in Tasks : drop_check(t)
    \/ \E t \in Tasks : drop_send(t)
    \/ \E t \in Tasks : drop_recv(t)
    \/ \E t \in Tasks : unwrap_cas(t)
    \/ \E t \in Tasks : unwrap_dec(t)
    \/ \E t \in Tasks : unwrap_recv(t)
    \/ \E t \in Tasks : unwrap_killed(t)
    \/ \E t \in Tasks : unwrap_take(t)
    \/ \E t \in Tasks : unwrap_resp(t)
    \/ \E t \in Tasks : Kill(t)
    \/ \E t \in Tasks : get_shared_mutable_state(t)
    \/ \E t \in Tasks : LittleLock_lock(t)
    \/ \E t \in Tasks : with_check(t)
    \/ \E t \in Tasks : with_body(t)
    \/ \E t \in Tasks : with_return(t)
    \/ \E t \in Tasks, stored \in BOOLEAN : with_fail(t, stored)
    \/ \E t \in Tasks : Unlock_drop(t)

Spec == Init /\ [][Next]_vars

(* Every task that can take a step of an operation it has begun takes it,  *)
(* closures return or fail, and handles are destructed when their owner    *)
(* is between operations or unwinding.                                     *)
Run(t) ==
    \/ ArcDestruct_drop(t) \/ drop_check(t) \/ drop_send(t) \/ drop_recv(t)
    \/ unwrap_dec(t) \/ unwrap_recv(t) \/ unwrap_killed(t) \/ unwrap_take(t)
    \/ unwrap_resp(t)
    \/ LittleLock_lock(t) \/ with_check(t) \/ with_body(t) \/ with_return(t)
    \/ (\E stored \in BOOLEAN : with_fail(t, stored)) \/ Unlock_drop(t)

FairSpec == Spec /\ \A t \in Tasks : WF_vars(Run(t))

(* ------------------------------ vocabulary ----------------------------- *)
RECURSIVE Sum(_, _)
Sum(f, S) == IF S = {} THEN 0
             ELSE LET x == CHOOSE y \in S : TRUE IN f[x] + Sum(f, S \ {x})

UnwrapPcs == {"unwrap_dec", "unwrap_wait", "unwrap_take", "unwrap_resp"}
WithPcs == {"with_lock", "with_check", "with_body", "with_ret", "with_unlock"}

(* Tasks whose compare_and_swap succeeded / failed.                        *)
Winners == {t \in Tasks : pc[t] \in UnwrapPcs \/ result[t] # NoResult
                                \/ err[t] = "Killed"}
Losers == {t \in Tasks : err[t] = "UnwrapContended"}
Moved == {t \in Tasks : result[t] # NoResult}
Quiescent == \A t \in Tasks : pc[t] \in {"idle", "failed"}
SomeClosureFailed == \E t \in Tasks : err[t] = "ClosureFailed"
(* A task inside an operation that cannot take its next step: it waits on *)
(* a pipe (taking the little lock blocks the thread, it is not a wait of  *)
(* the task in the scheduler).                                            *)
Suspended(t) ==
    /\ pc[t] \notin {"idle", "failed", "with_lock"}
    /\ ~ENABLED Run(t)
InClosure == {t \in Tasks : pc[t] \in {"with_body", "with_ret"}}

(* -------------------------------- claims ------------------------------- *)
(* C1: whenever tasks have called unwrap and passed the compare_and_swap,  *)
(* exactly one of them won it, and that one is decrementing, waiting on    *)
(* the rendezvous, taking the data, has returned the value, or was killed  *)
(* in the wait; every other caller failed with UnwrapContended.            *)
C1_ExactlyOneUnwrapper ==
    (Winners \cup Losers # {}) =>
        /\ Cardinality(Winners) = 1
        /\ Winners = {unwrapper}
        /\ Winners \cap Losers = {}

C1_Witness ==
    /\ Cardinality(Losers) = 2
    /\ \E t \in Winners : pc[t] = "unwrap_wait"

(* C2: the payload is consumed at most once at any time (moved out by one  *)
(* unwrap or destructed in place by one dropper, never both), and exactly  *)
(* once when every handle is gone and every task is at rest.               *)
C2_DataConsumedOnce ==
    /\ Cardinality(Moved) + dropped <= 1
    /\ (data = "None") <=> (Cardinality(Moved) = 1)
    /\ (Quiescent /\ \A t \in Tasks : handles[t] = 0)
          => Cardinality(Moved) + dropped = 1

C2_Witness ==
    /\ dropped = 1
    /\ \E t \in Tasks : err[t] = "Killed"
    /\ response = "got_false"

(* C3: count equals the number of live handles (plus the reservation of an *)
(* unwrapper between its compare_and_swap and its decrement), no assertion *)
(* on count fails, and without an unwrap c clones and d drops leave        *)
(* count = c + 1 - d, the cell being dead exactly when d = c + 1.          *)
C3_CountConservation ==
    /\ count = Sum(handles, Tasks)
                 + Cardinality({t \in Tasks : pc[t] = "unwrap_dec"})
    /\ count >= 0
    /\ \A t \in Tasks : err[t] # "AssertFailed"
    /\ unwrapper = 0 =>
          /\ drops <= clones + 1
          /\ count = clones + 1 - drops
          /\ (\A t \in Tasks : pc[t] # "drop_check")
                => (freed = <<"dropper">> <=> drops = clones + 1)
          /\ drops < clones + 1 => freed = <<>> /\ data = "Some" /\ dropped = 0

C3_Witness ==
    /\ unwrapper = 0
    /\ clones = 2
    /\ drops = 3
    /\ freed = <<"dropper">>

(* C4: once a closure has failed inside with, no task is ever again inside *)
(* a closure, failed stays true, and every call that gets past the poison  *)
(* check leaves with Poisoned.                                             *)
C4_PoisonPropagation ==
    SomeClosureFailed =>
        /\ failed
        /\ InClosure = {}
        /\ \A t \in Tasks :
              pc[t] = "with_unlock" => err[t] \in {"ClosureFailed", "Poisoned"}

C4_Witness ==
    \E t, u \in Tasks :
        /\ err[t] = "ClosureFailed" /\ pc[t] = "failed"
        /\ err[u] = "Poisoned" /\ pc[u] = "failed"

(* C5: at most one task at a time executes a closure of with, every task   *)
(* between the poison check and the unlock holds the little lock, and the  *)
(* payload is never moved out while the lock is held.                      *)
C5_MutualExclusion ==
    /\ Cardinality(InClosure) <= 1
    /\ \A t \in Tasks :
          pc[t] \in {"with_check", "with_body", "with_ret", "with_unlock"}
              => lock = t
    /\ data = "None" => lock = 0

C5_Witness ==
    \E t, u \in Tasks :
        /\ pc[t] = "with_ret"
        /\ pc[u] = "with_lock"
        /\ lock = t

(* C6: as long as no closure has failed, no call is Poisoned and the       *)
(* payload equals the number of calls whose closure has stored its         *)
(* increment; a closure that has read the payload has read that number.    *)
C6_NoLostUpdates ==
    ~SomeClosureFailed =>
        /\ \A t \in Tasks : err[t] # "Poisoned"
        /\ val = calls - Cardinality({t \in Tasks :
                      pc[t] \in {"with_lock", "with_check", "with_body", "with_ret"}})
        /\ \A t \in Tasks : pc[t] = "with_ret" => tmp[t] = val

C6_Witness ==
    /\ ~SomeClosureFailed
    /\ calls = 2
    /\ val = 2
    /\ \E t \in Tasks : pc[t] = "with_unlock"

(* C7: under FairSpec, an unwrap that won the compare_and_swap while its   *)
(* task holds no other handle, and whose task is not killed, returns the   *)
(* payload of the cell (the others drop before or after it waits).         *)
C7_ContendedUnwrapReturns ==
    \A t \in Tasks :
        (pc[t] = "unwrap_dec" /\ handles[t] = 0)
            ~> (killed[t] \/ (pc[t] = "idle" /\ result[t] = val /\ data = "None"))

C7_Witness ==
    \E t \in Tasks :
        /\ result[t] = val
        /\ ~killed[t]
        /\ response = "got_true"
        /\ message = "received"

(* C8: an unwrap whose own decrement takes count from 1 to 0 returns the   *)
(* stored payload in that step: it never waits, nothing is sent on message *)
(* or response, the server endpoints are destroyed and the cell is freed.  *)
C8_UncontendedShortCircuit ==
    [][\A t \in Tasks :
          (pc[t] = "unwrap_dec" /\ count = 1 /\ pc'[t] # "unwrap_dec") =>
              /\ pc'[t] = "idle"
              /\ result'[t] = val
              /\ data' = "None"
              /\ message' = "closed"
              /\ response' = "closed"
              /\ freed' = <<"unwrapper">>
              /\ dropped' = 0
              /\ count' = 0]_vars

C8_Witness ==
    \E t \in Tasks :
        /\ result[t] = 0
        /\ clones = 0
        /\ message = "closed"
        /\ response = "closed"
        /\ freed = <<"unwrapper">>

(* C9: a task waiting in unwrap while it owns another handle of the cell   *)
(* stays in the wait, with no error raised and no message sent, unless it  *)
(* is killed there.                                                        *)
C9_SelfAliasingDeadlock ==
    [][\A t \in Tasks :
          (pc[t] = "unwrap_wait" /\ handles[t] >= 1) =>
              /\ message = "open"
              /\ err[t] = "none"
              /\ \/ pc'[t] = "unwrap_wait" /\ handles'[t] >= 1
                                           /\ result'[t] = NoResult
                 \/ killed[t] /\ pc'[t] = "failed" /\ err'[t] = "Killed"]_vars

C9_Witness ==
    \E t \in Tasks :
        /\ pc[t] = "unwrap_wait"
        /\ handles[t] >= 1
        /\ ~killed[t]
        /\ \A u \in Tasks \ {t} : handles[u] = 0 /\ pc[u] \in {"idle", "failed"}

(* C10: under FairSpec every call of with that has begun ends, by          *)
(* returning or by failing, also after another task's closure failed.      *)
C10_WithTerminates ==
    \A t \in Tasks : (pc[t] \in WithPcs) ~> (pc[t] \in {"idle", "failed"})

C10_Witness ==
    \E t, u \in Tasks :
        /\ pc[t] = "with_lock"
        /\ pc[u] = "with_unlock"
        /\ err[u] = "ClosureFailed"
        /\ lock = u

(* C11: a call of unwrap whose compare_and_swap fails leaves count,        *)
(* unwrapper, data and both pipes as they were and keeps the caller's      *)
(* handle; the unwinding task then destructs that handle, which takes one  *)
(* off count and, at 0, goes on to the rendezvous with the installed       *)
(* unwrapper.                                                              *)
C11_ContendedUnwrapChangesNothing ==
    [][\A t \in Tasks :
          /\ (err[t] = "none" /\ err'[t] = "UnwrapContended") =>
                /\ UNCHANGED <<count, unwrapper, data, dropped, freed, message,
                               response>>
                /\ handles'[t] = handles[t]
                /\ handles[t] >= 1
                /\ pc'[t] = "failed"
          /\ (err[t] = "UnwrapContended" /\ handles'[t] # handles[t]) =>
                /\ handles'[t] = handles[t] - 1
                /\ count' = count - 1
                /\ count' >= 0
                /\ pc'[t] = IF count' = 0 THEN "drop_check" ELSE "failed"
          /\ (err[t] = "UnwrapContended" /\ pc[t] = "drop_check") =>
                pc'[t] \in {"drop_check", "drop_send"}]_vars

C11_Witness ==
    \E t \in Tasks :
        /\ err[t] = "UnwrapContended"
        /\ pc[t] = "drop_recv"
        /\ handles[t] = 0

(* C12 as claimed: a task inside an operation is suspended only in the     *)
(* recv(message) wait of unwrap; no task is ever blocked inside a handle   *)
(* drop.                                                                   *)
C12_SuspendsOnlyInUnwrap ==
    \A t \in Tasks : Suspended(t) => pc[t] = "unwrap_wait"

(* C12, amended: a task inside an operation is suspended only in the       *)
(* recv(message) wait of unwrap, or in the recv(response) wait of the      *)
(* handle drop that took count to 0 with an unwrapper installed, while the *)
(* unwrapper has not answered yet; clone, with and every other step of     *)
(* drop and unwrap never suspend.                                          *)
C12_SuspensionPoints ==
    \A t \in Tasks :
        Suspended(t) =>
            \/ pc[t] = "unwrap_wait" /\ message = "open" /\ ~killed[t]
            \/ /\ pc[t] = "drop_recv"
               /\ count = 0
               /\ unwrapper \in Tasks
               /\ response = "open"
               /\ pc[unwrapper] \in {"unwrap_wait", "unwrap_take", "unwrap_resp"}

C12_Witness ==
    \E t, u \in Tasks :
        /\ pc[t] = "drop_recv"
        /\ Suspended(t)
        /\ pc[u] = "unwrap_wait"
        /\ message = "sent"

(* C13: the box is freed at most once and only once count is 0; by the     *)
(* final dropper exactly when no unwrapper was installed or the response   *)
(* it received was false; by the unwrapper exactly when it short-circuited *)
(* or sent true; and it is freed once count is 0 and every task is at rest.*)
C13_FreedOnceByOneParty ==
    /\ Len(freed) <= 1
    /\ freed # <<>> => count = 0
    /\ freed = <<"dropper">> <=>
          \/ count = 0 /\ unwrapper = 0 /\ \A t \in Tasks : pc[t] # "drop_check"
          \/ response = "got_false"
    /\ freed = <<"unwrapper">> <=>
          \/ message = "closed" /\ response = "closed"
          \/ response \in {"true", "got_true"}
    /\ (count = 0 /\ Quiescent) => Len(freed) = 1

C13_Witness ==
    /\ freed = <<"dropper">>
    /\ response = "got_false"
    /\ Quiescent

(* C14: an unwrap that entered the wait sends on response exactly when it  *)
(* leaves unwrap: nothing before, true after a wait that completed (the    *)
(* data is then with the unwrapper), false after a kill in the wait (the   *)
(* data is then still in the cell and the unwrapper has no result),        *)
(* whether or not message had been sent when the kill struck.              *)
C14_OneResponse ==
    \A t \in Tasks :
        unwrapper = t =>
            /\ pc[t] \in UnwrapPcs => response = "open"
            /\ pc[t] \in {"unwrap_dec", "unwrap_wait"}
                  => data = "Some" /\ result[t] = NoResult
            /\ pc[t] = "unwrap_resp" => data = "None" /\ result[t] = val
            /\ err[t] = "Killed" =>
                  /\ response \in {"false", "got_false"}
                  /\ result[t] = NoResult
                  /\ data = "Some"
                  /\ message \in {"closed", "sent"}
            /\ (pc[t] = "idle" /\ message # "closed") =>
                  /\ response \in {"true", "got_true"}
                  /\ message = "received"
                  /\ result[t] = val
                  /\ data = "None"
            /\ response \in {"true", "got_true"} =>
                  err[t] = "none" /\ pc[t] = "idle" /\ message = "received"
            /\ response \in {"false", "got_false"} => err[t] = "Killed"

C14_Witness ==
    \E t \in Tasks :
        /\ err[t] = "Killed"
        /\ message = "sent"
        /\ response = "got_false"
        /\ dropped = 1

(* C15 as claimed: the task whose drop took count to 0 with unwrapper      *)
(* non-zero sends message, then waits for response, and never destructs    *)
(* the payload itself.                                                     *)
C15_DropperNeverDestroys ==
    [][\A t \in Tasks :
          /\ (pc[t] = "drop_check" /\ unwrapper # 0) =>
                pc'[t] \in {"drop_check", "drop_send"}
          /\ pc[t] = "drop_send" =>
                \/ pc'[t] = "drop_send"
                \/ pc'[t] = "drop_recv" /\ message' # "open"
          /\ pc[t] \in {"drop_send", "drop_recv"} => dropped' = dropped]_vars

(* C15, amended: that task sends message and then waits for response; it   *)
(* destructs the payload (and frees the box) itself only after receiving   *)
(* false, and leaves both alone after receiving true.                      *)
C15_DropperHandsOff ==
    [][\A t \in Tasks :
          /\ (pc[t] = "drop_check" /\ unwrapper # 0) =>
                /\ pc'[t] \in {"drop_check", "drop_send"}
                /\ dropped' = dropped /\ freed' = freed
          /\ pc[t] = "drop_send" =>
                /\ \/ pc'[t] = "drop_send"
                   \/ pc'[t] = "drop_recv" /\ message' # "open"
                /\ dropped' = dropped /\ freed' = freed
          /\ (pc[t] = "drop_recv" /\ pc'[t] # "drop_recv") =>
                /\ response \in {"true", "false"}
                /\ response = "true" => dropped' = dropped /\ freed' = freed
                /\ response = "false" =>
                      dropped' = dropped + 1 /\ freed' = <<"dropper">>]_vars

C15_Witness ==
    \E t \in Tasks :
        /\ pc[t] = "drop_recv"
        /\ message = "sent"
        /\ response = "false"

(* C16: the slot is non-zero exactly when an unwrap was admitted; while    *)
(* the admitted unwrapper has not decremented, no dropper has seen count   *)
(* reach 0; a dropper at its read of the slot after an admission therefore *)
(* reads it non-zero, and the box is never freed nor the payload           *)
(* destructed while the unwrapper is before or in its wait.                *)
C16_InstallBeforeDecrement ==
    /\ (unwrapper # 0) <=> (Winners # {})
    /\ \A t, u \in Tasks :
          pc[u] = "unwrap_dec" =>
              /\ count >= 1
              /\ pc[t] \notin {"drop_check", "drop_send", "drop_recv"}
    /\ \A u \in Tasks :
          pc[u] \in {"unwrap_dec", "unwrap_wait"} => freed = <<>> /\ dropped = 0
    /\ \A t \in Tasks :
          (pc[t] = "drop_check" /\ unwrapper = 0) =>
              \A u \in Tasks : pc[u] \notin UnwrapPcs /\ err[u] # "Killed"

C16_Witness ==
    \E t, u \in Tasks :
        /\ pc[t] = "drop_check"
        /\ pc[u] = "unwrap_wait"
        /\ unwrapper = u

(* C17: under FairSpec a drop that took count to 0 with an unwrapper       *)
(* installed ends its wait on response and returns, and the cell is then   *)
(* freed, whether the unwrapper waits, is killed before message is sent or *)
(* is killed after it.                                                     *)
C17_FinalDropperWaitEnds ==
    \A t \in Tasks :
        (pc[t] \in {"drop_send", "drop_recv"})
            ~> (/\ pc[t] \in {"idle", "failed"}
                /\ response \in {"got_true", "got_false"}
                /\ Len(freed) = 1)

C17_Witness ==
    \E t \in Tasks :
        /\ pc[t] = "drop_recv"
        /\ message = "closed"
        /\ response = "false"

(* C18: a task holds the little lock only between its acquisition and its  *)
(* Unlock::drop, so never once its call of with has ended, by whichever    *)
(* path; the step that ends the call frees the lock and leaves failed      *)
(* false after a normal return, true after a closure failure and true      *)
(* after Poisoned.                                                         *)
C18_ScopedLockRelease ==
    [][\A t \in Tasks :
          /\ pc[t] \notin {"with_check", "with_body", "with_ret", "with_unlock"}
                => lock # t
          /\ pc'[t] \in {"idle", "failed"} => lock' # t
          /\ (pc[t] \in WithPcs /\ pc'[t] \in {"idle", "failed"}) =>
                /\ lock = t /\ lock' = 0
                /\ err[t] = "none" => pc'[t] = "idle" /\ ~failed'
                /\ err[t] \in {"ClosureFailed", "Poisoned"} =>
                      pc'[t] = "failed" /\ failed']_vars

C18_Witness ==
    \E t \in Tasks :
        /\ err[t] = "ClosureFailed"
        /\ pc[t] = "failed"
        /\ lock = 0
        /\ failed

(* C19: once non-zero, unwrapper never changes again; after the unwrapper  *)
(* was killed in its wait every further unwrap fails with UnwrapContended, *)
(* no task ever gets the payload as a result, and the payload stays in the *)
(* cell until it is destructed there.                                      *)
C19_SlotNeverCleared ==
    [][/\ unwrapper # 0 => unwrapper' = unwrapper
       /\ (\E k \in Tasks : err[k] = "Killed") =>
             /\ unwrapper # 0
             /\ data' = "Some"
             /\ \A t \in Tasks :
                   /\ result'[t] = NoResult
                   /\ pc'[t] \notin UnwrapPcs
                   /\ (pc[t] = "idle" /\ handles[t] >= 1) =>
                         ENABLED unwrap_cas(t)
                   /\ (pc[t] = "idle" /\ err'[t] \notin {"none", "Poisoned",
                                                         "ClosureFailed"})
                         => err'[t] = "UnwrapContended"]_vars

C19_Witness ==
    \E k, t \in Tasks :
        /\ err[k] = "Killed"
        /\ err[t] = "UnwrapContended"
        /\ pc[t] = "failed"
        /\ handles[t] = 0
        /\ dropped = 1
        /\ freed = <<"dropper">>

(* C20: when the payload is taken or gone (moved out or destructed) count  *)
(* is 0 and no task owns a handle or is inside with; as long as some task  *)
(* owns a handle the payload is in the cell, count is positive and the box *)
(* is not freed, so the assertions of get_shared_mutable_state never fail. *)
C20_DataPresentWhileLive ==
    /\ ((\E t \in Tasks : pc[t] \in {"unwrap_take", "unwrap_resp"})
           \/ data = "None" \/ dropped > 0 \/ freed # <<>>) =>
          /\ count = 0
          /\ \A t \in Tasks : handles[t] = 0 /\ pc[t] \notin WithPcs
    /\ \A t \in Tasks :
          (handles[t] >= 1 \/ pc[t] \in WithPcs) =>
              /\ data = "Some"
              /\ dropped = 0
              /\ freed = <<>>
              /\ count > 0
    /\ \A t \in Tasks : err[t] # "AssertFailed"

C20_Witness ==
    \E t \in Tasks :
        /\ pc[t] = "unwrap_take"
        /\ calls >= 1
        /\ clones = 2
        /\ drops = 2

(* C21: unwrap_exclusive does not consult the poison flag and never takes  *)
(* the inner lock: a task that moves the payload out gets the payload as   *)
(* it is stored, also when failed is true, without changing failed or lock *)
(* and without an error; no step of unwrap makes a task fail with Poisoned *)
(* (only the check of with does), no task holds the lock while it is in    *)
(* unwrap, and a task with a handle can start unwrap on a poisoned cell.   *)
C21_UnwrapIgnoresPoison ==
    [][\A t \in Tasks :
          /\ result'[t] # result[t] =>
                /\ pc[t] \in UnwrapPcs
                /\ result'[t] = val
                /\ val' = val
                /\ failed' = failed
                /\ lock' = lock
                /\ err'[t] = "none"
          /\ (err'[t] = "Poisoned" /\ err[t] # "Poisoned") =>
                pc[t] = "with_check"
          /\ (pc[t] \in UnwrapPcs \/ pc'[t] \in UnwrapPcs) =>
                lock # t /\ lock' # t
          /\ (failed /\ pc[t] = "idle" /\ handles[t] >= 1) =>
                ENABLED unwrap_cas(t)
          /\ (failed /\ pc[t] \in {"unwrap_dec", "unwrap_take"}
                 /\ data = "Some" /\ (pc[t] = "unwrap_dec" => count = 1)) =>
                (pc'[t] # pc[t] => result'[t] = val)]_vars

C21_Witness ==
    \E t, k \in Tasks :
        /\ t # k
        /\ err[k] = "ClosureFailed"
        /\ failed
        /\ val = 1
        /\ lock = 0
        /\ err[t] = "none"
        /\ result[t] = val
        /\ pc[t] = "idle"

====
